---- MODULE Spec2Model ----
(***************************************************************************)
(* Model of the zirv-macros helpers (src/src/lib.rs).                      *)
(*                                                                         *)
(* Retry engine: with_retry! (blocking) and retry_async! (suspending) are  *)
(* two separate macro bodies.  Both are run here, side by side, against    *)
(* the same policy ($retries) and the same operation ($expr), whose n-th   *)
(* evaluation yields the n-th outcome of a schedule chosen at start.       *)
(*                                                                         *)
(* json_merge!: a pure function over serde_json values, applied by one     *)
(* action to inputs drawn from a bounded set of values.                    *)
(*                                                                         *)
(* try_log!, unwrap_or_log!, log_error!: expanded inside an enclosing      *)
(* function on a Result and a default expression drawn from bounded sets.  *)
(*                                                                         *)
(* parse_env!: called between arbitrary set_var / remove_var operations on *)
(* the process environment.                                                *)
(***************************************************************************)
EXTENDS Integers, Sequences, FiniteSets, TLC

VARIABLES retries,      \* $retries, the policy's max_attempts
          schedule,     \* outcomes of the successive evaluations of $expr
          pc,           \* per executor: position in the macro body
          attempts,     \* per executor: `let mut attempts`
          invocations,  \* per executor: evaluations of $expr started so far
          delays,       \* per executor: sleeps started so far
          result,       \* per executor: value the loop broke with
          cancelled,    \* the future of retry_async! has been dropped
          completed,    \* per executor: evaluations of $expr that have yielded
          slept,        \* per executor: sleeps that have returned
          errval,       \* per executor: the error values its operation produces
          hpc,          \* helper macros: position in the enclosing function
          hmacro,       \* helper macros: the macro expanded
          hexpr,        \* helper macros: value of $expr
          hdefault,     \* helper macros: the $default expression
          hevals,       \* helper macros: evaluations of $default so far
          hvalue,       \* helper macros: value the macro yielded
          hret,         \* helper macros: return value of the enclosing function
          hafter,       \* helper macros: statements run after the macro
          hlog,         \* helper macros: lines logged
          env,          \* the process environment
          ecall,        \* parse_env!: $var and $default of the last call
          eresult,      \* parse_env!: String returned by the last call
          jpc,          \* json_merge!: position
          jbase,        \* json_merge!: $base
          jother,       \* json_merge!: $other
          jmerged       \* json_merge!: value of the macro block

retryVars == <<retries, schedule, pc, attempts, invocations, delays, result, cancelled,
               completed, slept, errval>>
jsonVars == <<jpc, jbase, jother, jmerged>>
helperVars == <<hpc, hmacro, hexpr, hdefault, hevals, hvalue, hret, hafter, hlog>>
envVars == <<env, ecall, eresult>>
vars == <<retries, schedule, pc, attempts, invocations, delays, result, cancelled,
          completed, slept, errval,
          jpc, jbase, jother, jmerged,
          hpc, hmacro, hexpr, hdefault, hevals, hvalue, hret, hafter, hlog,
          env, ecall, eresult>>

----------------------------------------------------------------------------
(* Bounds *)

\* largest max_attempts tried; also the length of the outcome schedule
MaxRetries == 3

\* largest JSON number used as a member value
MaxNum == 2

----------------------------------------------------------------------------
(* Result<T, E> *)

Ok(v) == [kind |-> "Ok", val |-> v]

Err(e) == [kind |-> "Err", val |-> e]

\* the loop has not broken yet
NoResult == [kind |-> "None", val |-> "none"]

OkValues == {"success"}

ErrValues == {"fail", "always fails"}

Outcomes == {Ok(v) : v \in OkValues} \cup {Err(e) : e \in ErrValues}

\* policies tried: the valid ones, and the degenerate 0 and -1
RetryPolicies == {-1} \cup (0..MaxRetries)

SchedLen == MaxRetries

\* evaluations of $expr a session may start (never reached by the macros)
InvocationCap == MaxRetries + 2

Executors == {"with_retry", "retry_async"}

\* the n-th evaluation of $expr; past the schedule the operation keeps
\* producing its last outcome
Operation(n) == IF n <= Len(schedule) THEN schedule[n] ELSE schedule[Len(schedule)]

\* the operation handed to executor x: the schedule's outcomes, each error
\* carrying the value this operation gives it
OperationOf(x, n) ==
    LET out == Operation(n)
    IN IF out.kind = "Err" THEN Err(errval[x][out.val]) ELSE out

\* both executors are handed the very same operation
SameErrors == [x \in Executors |-> [e \in ErrValues |-> e]]

----------------------------------------------------------------------------
(* with_retry! *)

\* variant: the bound compared with > (one attempt too many)
with_retry_ExhaustedLate(a, r) == a > r

\* variant: the bound counted in retries left (one attempt too few)
with_retry_ExhaustedEarly(a, r) == a + 1 >= r

\* variant: the bound compared with ==
with_retry_ExhaustedEq(a, r) == a = r

\* variant: one error value is taken as fatal and ends the session
with_retry_ExhaustedFatal(a, r) ==
    \/ a >= r
    \/ OperationOf("with_retry", invocations["with_retry"]).val = "always fails"

\* if attempts >= $retries
with_retry_Exhausted(a, r) == a >= r

\* break Ok(val)
with_retry_BreakOk(val) == Ok(val)

\* variant: the error of the first attempt is kept and surfaced
with_retry_BreakErrFirst(err) == Err(Operation(1).val)

\* break Err(err)
with_retry_BreakErr(err) == Err(err)

\* loop { match $expr ...: the evaluation of $expr starts
with_retry_Invoke ==
    /\ pc["with_retry"] = "loop"
    /\ invocations["with_retry"] < InvocationCap
    /\ pc' = [pc EXCEPT !["with_retry"] = "attempting"]
    /\ invocations' = [invocations EXCEPT !["with_retry"] = @ + 1]
    /\ UNCHANGED <<retries, schedule, attempts, delays, result, cancelled>>
    /\ UNCHANGED <<completed, slept, errval>>
    /\ UNCHANGED <<jsonVars, helperVars, envVars>>

\* variant: attempts counts every invocation, successful or not
with_retry_MatchCountAll ==
    /\ pc["with_retry"] = "attempting"
    /\ completed' = [completed EXCEPT !["with_retry"] = @ + 1]
    /\ attempts' = [attempts EXCEPT !["with_retry"] = @ + 1]
    /\ LET out == OperationOf("with_retry", invocations["with_retry"])
       IN IF out.kind = "Ok"
          THEN /\ result' = [result EXCEPT !["with_retry"] = with_retry_BreakOk(out.val)]
               /\ pc' = [pc EXCEPT !["with_retry"] = "done"]
               /\ UNCHANGED delays
          ELSE IF with_retry_Exhausted(attempts'["with_retry"], retries)
               THEN /\ result' = [result EXCEPT !["with_retry"] = with_retry_BreakErr(out.val)]
                    /\ pc' = [pc EXCEPT !["with_retry"] = "done"]
                    /\ UNCHANGED delays
               ELSE /\ pc' = [pc EXCEPT !["with_retry"] = "waiting"]
                    /\ delays' = [delays EXCEPT !["with_retry"] = @ + 1]
                    /\ UNCHANGED result
    /\ UNCHANGED <<retries, schedule, invocations, cancelled, slept, errval>>
    /\ UNCHANGED <<jsonVars, helperVars, envVars>>

\* variant: the counter is a static shared by every session
with_retry_MatchShared ==
    /\ pc["with_retry"] = "attempting"
    /\ completed' = [completed EXCEPT !["with_retry"] = @ + 1]
    /\ LET out == OperationOf("with_retry", invocations["with_retry"])
       IN IF out.kind = "Ok"
          THEN /\ result' = [result EXCEPT !["with_retry"] = with_retry_BreakOk(out.val)]
               /\ pc' = [pc EXCEPT !["with_retry"] = "done"]
               /\ UNCHANGED <<attempts, delays>>
          ELSE /\ attempts' = [x \in Executors |-> attempts[x] + 1]
               /\ IF with_retry_Exhausted(attempts'["with_retry"], retries)
                  THEN /\ result' = [result EXCEPT !["with_retry"] = with_retry_BreakErr(out.val)]
                       /\ pc' = [pc EXCEPT !["with_retry"] = "done"]
                       /\ UNCHANGED delays
                  ELSE /\ pc' = [pc EXCEPT !["with_retry"] = "waiting"]
                       /\ delays' = [delays EXCEPT !["with_retry"] = @ + 1]
                       /\ UNCHANGED result
    /\ UNCHANGED <<retries, schedule, invocations, cancelled, slept, errval>>
    /\ UNCHANGED <<jsonVars, helperVars, envVars>>

\* $expr has produced its outcome; the match arms up to the sleep call
with_retry_Match ==
    /\ pc["with_retry"] = "attempting"
    /\ completed' = [completed EXCEPT !["with_retry"] = @ + 1]
    /\ LET out == OperationOf("with_retry", invocations["with_retry"])
       IN IF out.kind = "Ok"
          THEN /\ result' = [result EXCEPT !["with_retry"] = with_retry_BreakOk(out.val)]
               /\ pc' = [pc EXCEPT !["with_retry"] = "done"]
               /\ UNCHANGED <<attempts, delays>>
          ELSE /\ attempts' = [attempts EXCEPT !["with_retry"] = @ + 1]
               /\ IF with_retry_Exhausted(attempts'["with_retry"], retries)
                  THEN /\ result' = [result EXCEPT !["with_retry"] = with_retry_BreakErr(out.val)]
                       /\ pc' = [pc EXCEPT !["with_retry"] = "done"]
                       /\ UNCHANGED delays
                  ELSE /\ pc' = [pc EXCEPT !["with_retry"] = "waiting"]
                       /\ delays' = [delays EXCEPT !["with_retry"] = @ + 1]
                       /\ UNCHANGED result
    /\ UNCHANGED <<retries, schedule, invocations, cancelled, slept, errval>>
    /\ UNCHANGED <<jsonVars, helperVars, envVars>>

\* std::thread::sleep returns; back to the top of the loop
with_retry_Wake ==
    /\ pc["with_retry"] = "waiting"
    /\ pc' = [pc EXCEPT !["with_retry"] = "loop"]
    /\ slept' = [slept EXCEPT !["with_retry"] = @ + 1]
    /\ UNCHANGED <<retries, schedule, attempts, invocations, delays, result, cancelled>>
    /\ UNCHANGED <<completed, errval>>
    /\ UNCHANGED <<jsonVars, helperVars, envVars>>

----------------------------------------------------------------------------
(* retry_async! *)

\* variant: the loop runs as a detached task that outlives its caller
retry_async_PolledDetached == TRUE

\* a future makes progress only while its owner still polls it: every
\* .await of the macro body is a point where a dropped future stops
retry_async_Polled == ~cancelled

\* variant: the bound compared with > (one attempt too many)
retry_async_ExhaustedLate(a, r) == a > r

\* variant: the bound compared with ==
retry_async_ExhaustedEq(a, r) == a = r

\* if attempts >= $retries
retry_async_Exhausted(a, r) == a >= r

\* break Ok(val)
retry_async_BreakOk(val) == Ok(val)

\* break Err(err)
retry_async_BreakErr(err) == Err(err)

\* variant: the sleep future is created and not awaited
retry_async_InvokeNoAwait ==
    /\ pc["retry_async"] \in {"loop", "waiting"}
    /\ retry_async_Polled
    /\ invocations["retry_async"] < InvocationCap
    /\ pc' = [pc EXCEPT !["retry_async"] = "attempting"]
    /\ invocations' = [invocations EXCEPT !["retry_async"] = @ + 1]
    /\ UNCHANGED <<retries, schedule, attempts, delays, result, cancelled>>
    /\ UNCHANGED <<completed, slept, errval>>
    /\ UNCHANGED <<jsonVars, helperVars, envVars>>

\* loop { match $async_expr.await ...: the future of the operation is
\* created and awaited
retry_async_Invoke ==
    /\ pc["retry_async"] = "loop"
    /\ retry_async_Polled
    /\ invocations["retry_async"] < InvocationCap
    /\ pc' = [pc EXCEPT !["retry_async"] = "attempting"]
    /\ invocations' = [invocations EXCEPT !["retry_async"] = @ + 1]
    /\ UNCHANGED <<retries, schedule, attempts, delays, result, cancelled>>
    /\ UNCHANGED <<completed, slept, errval>>
    /\ UNCHANGED <<jsonVars, helperVars, envVars>>

\* the awaited operation is ready; the match arms up to the sleep future
retry_async_Match ==
    /\ pc["retry_async"] = "attempting"
    /\ retry_async_Polled
    /\ completed' = [completed EXCEPT !["retry_async"] = @ + 1]
    /\ LET out == OperationOf("retry_async", invocations["retry_async"])
       IN IF out.kind = "Ok"
          THEN /\ result' = [result EXCEPT !["retry_async"] = retry_async_BreakOk(out.val)]
               /\ pc' = [pc EXCEPT !["retry_async"] = "done"]
               /\ UNCHANGED <<attempts, delays>>
          ELSE /\ attempts' = [attempts EXCEPT !["retry_async"] = @ + 1]
               /\ IF retry_async_Exhausted(attempts'["retry_async"], retries)
                  THEN /\ result' = [result EXCEPT !["retry_async"] = retry_async_BreakErr(out.val)]
                       /\ pc' = [pc EXCEPT !["retry_async"] = "done"]
                       /\ UNCHANGED delays
                  ELSE /\ pc' = [pc EXCEPT !["retry_async"] = "waiting"]
                       /\ delays' = [delays EXCEPT !["retry_async"] = @ + 1]
                       /\ UNCHANGED result
    /\ UNCHANGED <<retries, schedule, invocations, cancelled, slept, errval>>
    /\ UNCHANGED <<jsonVars, helperVars, envVars>>

\* tokio::time::sleep(..).await is ready; back to the top of the loop
retry_async_Wake ==
    /\ pc["retry_async"] = "waiting"
    /\ retry_async_Polled
    /\ pc' = [pc EXCEPT !["retry_async"] = "loop"]
    /\ slept' = [slept EXCEPT !["retry_async"] = @ + 1]
    /\ UNCHANGED <<retries, schedule, attempts, invocations, delays, result, cancelled>>
    /\ UNCHANGED <<completed, errval>>
    /\ UNCHANGED <<jsonVars, helperVars, envVars>>

\* the surrounding task is cancelled while the macro body is suspended at
\* one of its two .await points: its future is dropped where it stands
retry_async_Cancel ==
    /\ pc["retry_async"] \in {"attempting", "waiting"}
    /\ ~cancelled
    /\ cancelled' = TRUE
    /\ UNCHANGED <<retries, schedule, pc, attempts, invocations, delays, result>>
    /\ UNCHANGED <<completed, slept, errval>>
    /\ UNCHANGED <<jsonVars, helperVars, envVars>>

----------------------------------------------------------------------------
(* specifications of the retry engine *)

\* values of the helper macros' expressions: integers and strings
IntV(n) == [t |-> "int", i |-> n]

StrV(str) == [t |-> "str", s |-> str]

\* nothing yielded yet
NoValue == [t |-> "none"]

\* no helper macro is being expanded
HelperIdle ==
    /\ hpc = "idle"
    /\ hmacro = "none"
    /\ hexpr = NoResult
    /\ hdefault = [kind |-> "pure", val |-> StrV("default")]
    /\ hevals = 0
    /\ hvalue = NoValue
    /\ hret = NoResult
    /\ hafter = 0
    /\ hlog = << >>

\* a variable of the environment that is not set
Unset == [t |-> "unset"]

EnvNames == {"TEST_VAR", "PORT"}

\* parse_env! is not in use
EnvIdle ==
    /\ env = [v \in EnvNames |-> Unset]
    /\ ecall = [var |-> "none"]
    /\ eresult = NoValue

JsonIdle ==
    /\ jpc = "idle"
    /\ jbase = [type |-> "Null"]
    /\ jother = [type |-> "Null"]
    /\ jmerged = [type |-> "Null"]

Init ==
    /\ retries \in RetryPolicies
    /\ schedule \in [1..SchedLen -> Outcomes]
    /\ pc = [x \in Executors |-> "loop"]
    /\ attempts = [x \in Executors |-> 0]
    /\ invocations = [x \in Executors |-> 0]
    /\ delays = [x \in Executors |-> 0]
    /\ result = [x \in Executors |-> NoResult]
    /\ cancelled = FALSE
    /\ completed = [x \in Executors |-> 0]
    /\ slept = [x \in Executors |-> 0]
    /\ errval = SameErrors
    /\ JsonIdle
    /\ HelperIdle
    /\ EnvIdle

\* every invocation and every delay completes: no cancellation
NextRun ==
    \/ with_retry_Invoke
    \/ with_retry_Match
    \/ with_retry_Wake
    \/ retry_async_Invoke
    \/ retry_async_Match
    \/ retry_async_Wake

Next ==
    \/ with_retry_Invoke
    \/ with_retry_Match
    \/ with_retry_Wake
    \/ retry_async_Invoke
    \/ retry_async_Match
    \/ retry_async_Wake
    \/ retry_async_Cancel

Spec == Init /\ [][Next]_vars

\* both executors run to completion: the thread of with_retry! keeps
\* running and the task of retry_async! keeps being polled
SpecRun ==
    /\ Init
    /\ [][NextRun]_vars
    /\ WF_vars(with_retry_Invoke \/ with_retry_Match \/ with_retry_Wake)
    /\ WF_vars(retry_async_Invoke \/ retry_async_Match \/ retry_async_Wake)

\* two sessions, each handed its own operation: the operations fail on the
\* same attempts and differ in the error values they produce
InitPair ==
    /\ retries \in RetryPolicies
    /\ schedule \in [1..SchedLen -> Outcomes]
    /\ pc = [x \in Executors |-> "loop"]
    /\ attempts = [x \in Executors |-> 0]
    /\ invocations = [x \in Executors |-> 0]
    /\ delays = [x \in Executors |-> 0]
    /\ result = [x \in Executors |-> NoResult]
    /\ cancelled = FALSE
    /\ completed = [x \in Executors |-> 0]
    /\ slept = [x \in Executors |-> 0]
    /\ errval \in [Executors -> [ErrValues -> ErrValues]]
    /\ JsonIdle
    /\ HelperIdle
    /\ EnvIdle

\* the two sessions run concurrently, their steps interleaved in any order
SpecPair == InitPair /\ [][Next]_vars

----------------------------------------------------------------------------
(* json_merge! over serde_json::Value *)

Null == [type |-> "Null"]

Number(n) == [type |-> "Number", n |-> n]

String(str) == [type |-> "String", s |-> str]

Array(items) == [type |-> "Array", items |-> items]

\* Value::Object(Map<String, Value>): the map is a function on its keys
Object(m) == [type |-> "Object", map |-> m]

\* the keys used, in the order a Map iterates them
KeyOrder == <<"a", "b", "c">>

Keys == {KeyOrder[i] : i \in 1..Len(KeyOrder)}

MemberValues == {Number(n) : n \in 1..MaxNum}

Maps == UNION {[D -> MemberValues] : D \in SUBSET Keys}

JsonValues == {Object(m) : m \in Maps}
                \cup {Null, Number(1), String("s"), Array(<<Number(1)>>)}

\* Value::as_object / Value::as_object_mut return Some
IsObject(v) == v.type = "Object"

\* variant: an existing key keeps its value (entry().or_insert)
MapInsertKeep(m, k, v) == [x \in (DOMAIN m) \cup {k} |-> IF x \in DOMAIN m THEN m[x] ELSE v]

\* Map::insert(k, v): adds the key or replaces its value
MapInsert(m, k, v) == [x \in (DOMAIN m) \cup {k} |-> IF x = k THEN v ELSE m[x]]

\* the keys of a map as its iterator yields them
MapIter(m) == SelectSeq(KeyOrder, LAMBDA k : k \in DOMAIN m)

RECURSIVE InsertAll(_, _, _)
\* for (k, v) in other_obj { base_obj.insert(k.clone(), v.clone()); }
InsertAll(base_obj, other_obj, ks) ==
    IF ks = << >>
    THEN base_obj
    ELSE InsertAll(MapInsert(base_obj, Head(ks), other_obj[Head(ks)]), other_obj, Tail(ks))

\* variant: a base that is not an object is replaced by other
json_mergeReplace(base, other) ==
    IF IsObject(base) /\ IsObject(other)
    THEN Object(InsertAll(base.map, other.map, MapIter(other.map)))
    ELSE IF IsObject(base) THEN base ELSE other

\* the value of the macro block
json_merge(base, other) ==
    IF IsObject(base) /\ IsObject(other)
    THEN Object(InsertAll(base.map, other.map, MapIter(other.map)))
    ELSE base

JsonMerge ==
    /\ jpc = "call"
    /\ jmerged' = json_merge(jbase, jother)
    /\ jpc' = "done"
    /\ UNCHANGED <<jbase, jother>>
    /\ UNCHANGED <<retryVars, helperVars, envVars>>

\* no retry session is running
RetryIdle ==
    /\ retries = 1
    /\ schedule = [n \in 1..SchedLen |-> Ok("success")]
    /\ pc = [x \in Executors |-> "idle"]
    /\ attempts = [x \in Executors |-> 0]
    /\ invocations = [x \in Executors |-> 0]
    /\ delays = [x \in Executors |-> 0]
    /\ result = [x \in Executors |-> NoResult]
    /\ cancelled = FALSE
    /\ completed = [x \in Executors |-> 0]
    /\ slept = [x \in Executors |-> 0]
    /\ errval = SameErrors

InitJson ==
    /\ jpc = "call"
    /\ jbase \in JsonValues
    /\ jother \in JsonValues
    /\ jmerged = Null
    /\ RetryIdle
    /\ HelperIdle
    /\ EnvIdle

NextJson == JsonMerge

SpecJson == InitJson /\ [][NextJson]_vars

----------------------------------------------------------------------------
(* try_log!, unwrap_or_log!, log_error! *)

Digit(d) == <<"0", "1", "2", "3", "4", "5", "6", "7", "8", "9">>[d + 1]

RECURSIVE Decimal(_)
\* Display of an integer
Decimal(n) ==
    IF n < 0 THEN "-" \o Decimal(0 - n)
    ELSE IF n < 10 THEN Digit(n)
    ELSE Decimal(n \div 10) \o Digit(n % 10)

\* ToString::to_string: a string is copied, an integer is displayed
to_string(v) == IF v.t = "int" THEN StrV(Decimal(v.i)) ELSE v

\* the Results the macros are expanded on
HelperResults ==
    {Ok(IntV(10)), Ok(StrV("hello"))}
        \cup {Err(StrV(e)) : e \in {"error", "fail"}}
        \cup {Err(IntV(c)) : c \in {-1, 7, 404}}

\* $default: an expression without side effects, or one that bumps a
\* counter and yields it
Defaults ==
    {[kind |-> "pure", val |-> StrV("default")],
     [kind |-> "pure", val |-> IntV(0)],
     [kind |-> "counter"]}

\* the value of the n-th evaluation of $default
DefaultValue(d, n) == IF d.kind = "pure" THEN d.val ELSE IntV(n)

\* variant: the error is returned as it is
try_logNoConvert(expr) ==
    IF expr.kind = "Ok"
    THEN [flow |-> "yield", value |-> expr.val, ret |-> NoResult, log |-> << >>]
    ELSE [flow |-> "return", value |-> NoValue, ret |-> Err(expr.val),
          log |-> <<[sink |-> "stderr", err |-> expr.val]>>]

\* match $expr { Ok(val) => val, Err(err) => { eprintln!(..); return Err(err.to_string()); } }
try_log(expr) ==
    IF expr.kind = "Ok"
    THEN [flow |-> "yield", value |-> expr.val, ret |-> NoResult, log |-> << >>]
    ELSE [flow |-> "return", value |-> NoValue, ret |-> Err(to_string(expr.val)),
          log |-> <<[sink |-> "stderr", err |-> expr.val]>>]

\* variant: $default bound once, logged and yielded
unwrap_or_logOnce(expr, d, n) ==
    IF expr.kind = "Ok"
    THEN [flow |-> "yield", value |-> expr.val, ret |-> NoResult, evals |-> n, log |-> << >>]
    ELSE [flow |-> "yield", value |-> DefaultValue(d, n + 1), ret |-> NoResult, evals |-> n + 1,
          log |-> <<[sink |-> "stderr", err |-> expr.val, default |-> DefaultValue(d, n + 1)]>>]

\* match $expr { Ok(val) => val, Err(err) => { eprintln!(.., err, $default); $default } }
\* n: evaluations of $default before the macro
unwrap_or_log(expr, d, n) ==
    IF expr.kind = "Ok"
    THEN [flow |-> "yield", value |-> expr.val, ret |-> NoResult, evals |-> n, log |-> << >>]
    ELSE LET shown == DefaultValue(d, n + 1)
             yielded == DefaultValue(d, n + 2)
         IN [flow |-> "yield", value |-> yielded, ret |-> NoResult, evals |-> n + 2,
             log |-> <<[sink |-> "stderr", err |-> expr.val, default |-> shown]>>]

\* variant: the Result is unwrapped
log_errorUnwrap(expr, d, n) ==
    IF expr.kind = "Ok"
    THEN [flow |-> "yield", value |-> expr.val, ret |-> NoResult, evals |-> n, log |-> << >>]
    ELSE [flow |-> "panic", value |-> NoValue, ret |-> NoResult, evals |-> n,
          log |-> <<[sink |-> "tracing::error", err |-> expr.val]>>]

\* match $expr { Ok(val) => val, Err(err) => { tracing::error!(.., err); $default } }
log_error(expr, d, n) ==
    IF expr.kind = "Ok"
    THEN [flow |-> "yield", value |-> expr.val, ret |-> NoResult, evals |-> n, log |-> << >>]
    ELSE [flow |-> "yield", value |-> DefaultValue(d, n + 1), ret |-> NoResult, evals |-> n + 1,
          log |-> <<[sink |-> "tracing::error", err |-> expr.val]>>]

\* the macro expanded in the enclosing function has run with effect e
Expand(m, e, n) ==
    /\ hpc = "call"
    /\ hmacro' = m
    /\ hvalue' = e.value
    /\ hret' = e.ret
    /\ hlog' = hlog \o e.log
    /\ hevals' = n
    /\ hpc' = CASE e.flow = "yield" -> "after"
                [] e.flow = "return" -> "done"
                [] OTHER -> "panicked"
    /\ UNCHANGED <<hexpr, hdefault, hafter>>
    /\ UNCHANGED <<retryVars, jsonVars, envVars>>

\* let x = try_log!($expr);
TryLog == Expand("try_log", try_log(hexpr), hevals)

\* let v = unwrap_or_log!($expr, $default);
UnwrapOrLog ==
    LET e == unwrap_or_log(hexpr, hdefault, hevals)
    IN Expand("unwrap_or_log", e, e.evals)

\* let v = log_error!($expr, $default);
LogError ==
    LET e == log_error(hexpr, hdefault, hevals)
    IN Expand("log_error", e, e.evals)

\* the statements after the macro: the function returns Ok(x)
FnRest ==
    /\ hpc = "after"
    /\ hafter' = hafter + 1
    /\ hret' = Ok(hvalue)
    /\ hpc' = "done"
    /\ UNCHANGED <<hmacro, hexpr, hdefault, hevals, hvalue, hlog>>
    /\ UNCHANGED <<retryVars, jsonVars, envVars>>

InitHelpers ==
    /\ hpc = "call"
    /\ hmacro = "none"
    /\ hexpr \in HelperResults
    /\ hdefault \in Defaults
    /\ hevals = 0
    /\ hvalue = NoValue
    /\ hret = NoResult
    /\ hafter = 0
    /\ hlog = << >>
    /\ RetryIdle
    /\ JsonIdle
    /\ EnvIdle

NextHelpers ==
    \/ TryLog
    \/ UnwrapOrLog
    \/ LogError
    \/ FnRest

SpecHelpers == InitHelpers /\ [][NextHelpers]_vars

----------------------------------------------------------------------------
(* parse_env! over the process environment *)

\* a value of the environment that is not valid Unicode (an OsString)
NotUnicodeValue == [t |-> "bytes", b |-> <<255>>]

\* the values a variable of the environment may hold
EnvValues == {StrV("value1"), StrV("8080"), NotUnicodeValue}

\* $default of parse_env!: anything with to_string
EnvDefaults == {StrV("default"), IntV(3000)}

\* std::env::var: Ok(String) for a variable set to valid Unicode,
\* Err(VarError) for one that is not set or not valid Unicode
env_var(name) ==
    IF env[name].t = "str" THEN Ok(env[name].s)
    ELSE IF env[name].t = "unset" THEN Err("NotPresent")
    ELSE Err("NotUnicode")

\* std::env::var($var).unwrap_or_else(|_| { tracing::warn!(..); $default.to_string() })
parse_env(var, default) ==
    LET r == env_var(var)
    IN IF r.kind = "Ok" THEN StrV(r.val) ELSE to_string(default)

\* env::set_var(name, value)
SetVar(name, value) ==
    /\ env' = [env EXCEPT ![name] = value]
    /\ UNCHANGED <<ecall, eresult>>
    /\ UNCHANGED <<retryVars, jsonVars, helperVars>>

\* env::remove_var(name)
RemoveVar(name) ==
    /\ env' = [env EXCEPT ![name] = Unset]
    /\ UNCHANGED <<ecall, eresult>>
    /\ UNCHANGED <<retryVars, jsonVars, helperVars>>

\* let result = parse_env!(var, default);
ParseEnv(var, default) ==
    /\ ecall' = [var |-> var, default |-> default]
    /\ eresult' = parse_env(var, default)
    /\ UNCHANGED env
    /\ UNCHANGED <<retryVars, jsonVars, helperVars>>

\* the environment the process starts with is arbitrary
InitEnv ==
    /\ env \in [EnvNames -> EnvValues \cup {Unset}]
    /\ ecall = [var |-> "none"]
    /\ eresult = NoValue
    /\ RetryIdle
    /\ JsonIdle
    /\ HelperIdle

NextEnv ==
    \/ \E name \in EnvNames : \E value \in EnvValues : SetVar(name, value)
    \/ \E name \in EnvNames : RemoveVar(name)
    \/ \E var \in EnvNames : \E default \in EnvDefaults : ParseEnv(var, default)

SpecEnv == InitEnv /\ [][NextEnv]_vars

----------------------------------------------------------------------------
(* properties of the retry engine *)

Returned(x) == pc[x] = "done"

\* the operation fails on every attempt 1..retries
AllFail == \A n \in 1..retries : Operation(n).kind = "Err"

\* the operation fails on attempts 1..k-1 and succeeds on attempt k
FirstOkAt(k) ==
    /\ Operation(k).kind = "Ok"
    /\ \A n \in 1..(k - 1) : Operation(n).kind = "Err"

\* C1 (Exhaustion): with max_attempts >= 1 and an operation that fails on
\* every attempt 1..max_attempts, an executor that has returned returns Err
\* with the failure value of attempt max_attempts, after exactly
\* max_attempts invocations and max_attempts - 1 delays.
C1_Exhaustion ==
    \A x \in Executors :
        (retries >= 1 /\ AllFail /\ Returned(x)) =>
            /\ result[x] = Err(Operation(retries).val)
            /\ invocations[x] = retries
            /\ delays[x] = retries - 1

C1_Witness ==
    /\ retries = MaxRetries
    /\ AllFail
    /\ Operation(1).val # Operation(retries).val
    /\ \A x \in Executors : Returned(x) /\ result[x].kind = "Err"

\* C2 (Eventual success): with max_attempts >= 1 and an operation that fails
\* on attempts 1..k-1 and succeeds on attempt k <= max_attempts, an executor
\* that has returned returns Ok with the value of attempt k after exactly k
\* invocations and k-1 delays (k = 1: one invocation, no delay), and after
\* the success it neither invokes the operation nor sleeps again.
C2_EventualSuccess ==
    /\ [](\A x \in Executors : \A k \in 1..retries :
            (FirstOkAt(k) /\ Returned(x)) =>
                /\ result[x] = Ok(Operation(k).val)
                /\ invocations[x] = k
                /\ delays[x] = k - 1)
    /\ [][\A x \in Executors :
            result[x].kind = "Ok" =>
                /\ invocations'[x] = invocations[x]
                /\ delays'[x] = delays[x]
                /\ result'[x] = result[x]]_vars

C2_Witness ==
    /\ retries >= 2
    /\ FirstOkAt(retries)
    /\ \A x \in Executors : Returned(x) /\ result[x].kind = "Ok" /\ delays[x] = retries - 1

\* C3 (Most recent outcome wins): whatever the policy and the schedule, the
\* value an executor returns is the outcome of the last invocation it made,
\* unmodified; an earlier attempt's error is never the result.
C3_LastOutcomeWins ==
    \A x \in Executors :
        Returned(x) => result[x] = Operation(invocations[x])

C3_Witness ==
    \E x \in Executors :
        /\ Returned(x)
        /\ result[x].kind = "Err"
        /\ invocations[x] >= 2
        /\ Operation(1).kind = "Err"
        /\ Operation(1).val # result[x].val

\* C4 (Bounded attempt count): with max_attempts >= 1 the number of
\* invocations made so far never exceeds max_attempts, and an executor that
\* has returned has invoked the operation at least once.
C4_BoundedAttempts ==
    \A x \in Executors :
        /\ retries >= 1 => invocations[x] <= retries
        /\ (retries >= 1 /\ Returned(x)) => invocations[x] >= 1

C4_Witness ==
    /\ retries >= 2
    /\ \E x \in Executors : Returned(x) /\ invocations[x] = retries /\ result[x].kind = "Err"
    /\ \E x \in Executors : ~Returned(x) /\ invocations[x] >= 1

\* C5 (No delay after the final attempt): an executor sleeps only while
\* attempts are left, a sleep is left only towards the top of the loop,
\* where the next thing done is an invocation of the operation, and an
\* executor never returns out of a sleep.
C5_NoDelayAfterFinal ==
    /\ [](\A x \in Executors : pc[x] = "waiting" => invocations[x] < retries)
    /\ [](\A x \in Executors : Returned(x) => delays[x] = invocations[x] - 1)
    /\ [][\A x \in Executors :
            /\ pc[x] = "waiting" => pc'[x] \in {"waiting", "loop"}
            /\ (pc[x] = "loop" /\ pc'[x] # "loop") =>
                    (pc'[x] = "attempting" /\ invocations'[x] = invocations[x] + 1)
            /\ (pc'[x] = "done" /\ pc[x] # "done") => pc[x] = "attempting"]_vars

C5_Witness ==
    /\ AllFail
    /\ retries >= 2
    /\ \A x \in Executors :
        Returned(x) /\ invocations[x] = retries /\ delays[x] = retries - 1

\* C6 (Suspending-variant equivalence): run to completion on the same policy
\* and the same schedule, retry_async! and with_retry! return the same
\* result after the same number of invocations and of delays.
C6_Equivalence ==
    (Returned("with_retry") /\ Returned("retry_async")) =>
        /\ result["retry_async"] = result["with_retry"]
        /\ invocations["retry_async"] = invocations["with_retry"]
        /\ delays["retry_async"] = delays["with_retry"]

C6_Witness ==
    /\ Returned("with_retry")
    /\ Returned("retry_async")
    /\ retries >= 2
    /\ invocations["retry_async"] = retries
    /\ result["retry_async"].kind = "Err"

\* C7 (Cancellation): once the task of retry_async! is cancelled while it
\* is suspended on the operation or on the sleep, the operation is not
\* invoked again by that session and the session has no result, ever.
C7_Cancellation ==
    /\ [](cancelled => result["retry_async"] = NoResult)
    /\ [][cancelled =>
            /\ cancelled'
            /\ invocations'["retry_async"] = invocations["retry_async"]
            /\ delays'["retry_async"] = delays["retry_async"]
            /\ pc'["retry_async"] = pc["retry_async"]
            /\ result'["retry_async"] = NoResult]_vars

\* cancelled during the sleep with attempts left, and the rest of the
\* system has gone on since
C7_Witness ==
    /\ cancelled
    /\ pc["retry_async"] = "waiting"
    /\ invocations["retry_async"] < retries
    /\ Returned("with_retry")
    /\ invocations["with_retry"] > invocations["retry_async"]

\* C8 (Degenerate policy): with max_attempts < 1 the operation is invoked at
\* most once, never delayed, and an executor that has returned has invoked
\* it exactly once and returns its outcome: as with max_attempts = 1.
C8_DegeneratePolicy ==
    \A x \in Executors :
        retries < 1 =>
            /\ invocations[x] <= 1
            /\ delays[x] = 0
            /\ Returned(x) => (invocations[x] = 1 /\ result[x] = Operation(1))

C8_Witness ==
    /\ retries < 1
    /\ Operation(1).kind = "Err"
    /\ \A x \in Executors : Returned(x) /\ result[x] = Operation(1)

\* C9 (Termination): when every invocation and every delay completes, both
\* executors eventually return, and an executor that has returned stays
\* returned and does not invoke the operation again.
C9_Termination ==
    /\ <>(\A x \in Executors : Returned(x))
    /\ [][\A x \in Executors :
            Returned(x) =>
                /\ Returned(x)'
                /\ invocations'[x] = invocations[x]
                /\ result'[x] = result[x]]_vars

C9_Witness ==
    /\ retries = MaxRetries
    /\ \A x \in Executors : Returned(x) /\ invocations[x] = MaxRetries

\* C14 (Strict sequencing): a session has at most one invocation of the
\* operation in progress, and it begins an invocation only when every
\* earlier one has yielded, failed, and the sleep that followed it has
\* returned.
C14_StrictSequencing ==
    /\ [](\A x \in Executors : invocations[x] - completed[x] \in {0, 1})
    /\ [][\A x \in Executors :
            invocations'[x] # invocations[x] =>
                /\ invocations'[x] = invocations[x] + 1
                /\ completed[x] = invocations[x]
                /\ slept[x] = delays[x]
                /\ invocations[x] >= 1 =>
                      /\ OperationOf(x, invocations[x]).kind = "Err"
                      /\ delays[x] = invocations[x]]_vars

C14_Witness ==
    \E x \in Executors :
        /\ pc[x] = "attempting"
        /\ invocations[x] = MaxRetries
        /\ completed[x] = MaxRetries - 1
        /\ slept[x] = MaxRetries - 1

\* the invocations of executor x that have yielded Err
FailedSoFar(x) == Cardinality({n \in 1..completed[x] : OperationOf(x, n).kind = "Err"})

PatternInvocations ==
    LET lim == IF retries < 1 THEN 1 ELSE retries
        oks == {k \in 1..lim : Operation(k).kind = "Ok"}
    IN IF oks = {} THEN lim ELSE CHOOSE k \in oks : \A j \in oks : k <= j

\* C16 (Error-content independence): two sessions with the same
\* max_attempts whose operations fail on the same attempts with different
\* error values have made the same number of invocations and of delays when
\* they return; the numbers are those the pattern and the bound fix.
C16_ErrorContentIndependence ==
    /\ (Returned("with_retry") /\ Returned("retry_async")) =>
          /\ invocations["with_retry"] = invocations["retry_async"]
          /\ delays["with_retry"] = delays["retry_async"]
    /\ \A x \in Executors :
          Returned(x) =>
              /\ invocations[x] = PatternInvocations
              /\ delays[x] = PatternInvocations - 1

\* both sessions have returned after retries, with different errors
C16_Witness ==
    /\ Returned("with_retry")
    /\ Returned("retry_async")
    /\ invocations["with_retry"] >= 2
    /\ result["with_retry"].kind = "Err"
    /\ result["retry_async"].kind = "Err"
    /\ result["with_retry"].val # result["retry_async"].val
    /\ \E n \in 1..(retries - 1) :
          OperationOf("with_retry", n).val # OperationOf("retry_async", n).val

\* if attempts >= $retries, of the macro session x expands
ExhaustedOf(x, a, r) ==
    IF x = "with_retry" THEN with_retry_Exhausted(a, r) ELSE retry_async_Exhausted(a, r)

RECURSIVE SoloRun(_, _, _)
\* session x run alone, from its n-th invocation with the counter at a
SoloRun(x, n, a) ==
    LET out == OperationOf(x, n)
    IN IF out.kind = "Ok"
       THEN [result |-> out, invocations |-> n, delays |-> n - 1, attempts |-> a]
       ELSE IF ExhaustedOf(x, a + 1, retries) \/ n >= InvocationCap
            THEN [result |-> out, invocations |-> n, delays |-> n - 1, attempts |-> a + 1]
            ELSE SoloRun(x, n + 1, a + 1)

\* what a session owns
Session(x) == <<pc[x], attempts[x], invocations[x], delays[x], result[x],
                completed[x], slept[x]>>

\* C17 (Session independence): under every interleaving a step of one
\* session leaves the other session's counter, delays, position and result
\* as they were, and a session that returns does so with the counter, the
\* number of delays and the result it has when run alone on its operation.
C17_SessionIndependence ==
    /\ [](\A x \in Executors :
            Returned(x) =>
                LET solo == SoloRun(x, 1, 0)
                IN /\ result[x] = solo.result
                   /\ invocations[x] = solo.invocations
                   /\ delays[x] = solo.delays
                   /\ attempts[x] = solo.attempts)
    /\ [][\A x \in Executors : \A y \in Executors \ {x} :
            Session(x)' # Session(x) => Session(y)' = Session(y)]_vars

\* one session has returned after retries while the other, with other
\* error values, is still in the middle of its own
C17_Witness ==
    \E x \in Executors : \E y \in Executors \ {x} :
        /\ Returned(x)
        /\ invocations[x] = MaxRetries
        /\ result[x].kind = "Err"
        /\ pc[y] = "waiting"
        /\ invocations[y] = 1
        /\ OperationOf(x, 1).val # OperationOf(y, 1).val

----------------------------------------------------------------------------
(* properties of json_merge! *)

\* C10: on two objects json_merge! returns an object whose keys are those
\* of both, where every key of other has other's value and every key of
\* base alone keeps base's value.
C10_JsonMergeObjects ==
    (jpc = "done" /\ IsObject(jbase) /\ IsObject(jother)) =>
        /\ IsObject(jmerged)
        /\ DOMAIN jmerged.map = (DOMAIN jbase.map) \cup (DOMAIN jother.map)
        /\ \A k \in DOMAIN jother.map : jmerged.map[k] = jother.map[k]
        /\ \A k \in (DOMAIN jbase.map) \ (DOMAIN jother.map) : jmerged.map[k] = jbase.map[k]

\* the merge of the repository's test: {a:1, b:2} with {b:?, c:?}, b differing
C10_Witness ==
    /\ jpc = "done"
    /\ IsObject(jbase)
    /\ IsObject(jother)
    /\ DOMAIN jbase.map = {"a", "b"}
    /\ DOMAIN jother.map = {"b", "c"}
    /\ jbase.map["b"] # jother.map["b"]
    /\ jmerged.map["b"] = jother.map["b"]

\* C18: when base or other is not a JSON object json_merge! returns base
\* as it is: no key is inserted and nothing fails.
C18_JsonMergeNonObject ==
    (jpc = "done" /\ (~IsObject(jbase) \/ ~IsObject(jother))) => jmerged = jbase

\* an object merged with an array, and a null merged with an object
C18_Witness ==
    /\ jpc = "done"
    /\ \/ (IsObject(jbase) /\ jbase.map # << >> /\ jother.type = "Array")
       \/ (jbase = Null /\ IsObject(jother) /\ jother.map # << >>)
    /\ jmerged = jbase

----------------------------------------------------------------------------
(* properties of the helper macros *)

\* C11: try_log! on Ok(v) yields v and the enclosing function goes on to
\* its next statements; on Err(e) the function has returned
\* Err(e.to_string()) at once and none of its later statements has run.
C11_TryLog ==
    hmacro = "try_log" =>
        /\ hexpr.kind = "Ok" =>
              /\ hpc \in {"after", "done"}
              /\ hvalue = hexpr.val
              /\ hlog = << >>
              /\ hpc = "done" => (hafter = 1 /\ hret.kind = "Ok")
        /\ hexpr.kind = "Err" =>
              /\ hpc = "done"
              /\ hret.kind = "Err"
              /\ hret.val = to_string(hexpr.val)
              /\ hafter = 0

C11_Witness ==
    /\ hmacro = "try_log"
    /\ hexpr = Err(IntV(404))
    /\ hpc = "done"
    /\ hret.val = StrV("404")

\* C12: unwrap_or_log! and log_error! yield v on Ok(v) and the value of
\* $default on Err; they never panic and never make the enclosing function
\* return the error.
C12_DefaultOnError ==
    hmacro \in {"unwrap_or_log", "log_error"} =>
        /\ hpc \in {"after", "done"}
        /\ hpc = "done" => (hafter = 1 /\ hret.kind = "Ok")
        /\ hexpr.kind = "Ok" => hvalue = hexpr.val
        /\ hexpr.kind = "Err" => hvalue = DefaultValue(hdefault, hevals)

C12_Witness ==
    /\ hmacro = "log_error"
    /\ hexpr.kind = "Err"
    /\ hdefault.kind = "pure"
    /\ hpc = "done"
    /\ hvalue = hdefault.val

\* C19: neither macro evaluates $default on Ok; on Err log_error!
\* evaluates it once and unwrap_or_log! twice, first for the logged message
\* and then for the value it yields.
C19_DefaultEvaluations ==
    hmacro \in {"unwrap_or_log", "log_error"} =>
        /\ hexpr.kind = "Ok" => hevals = 0
        /\ (hexpr.kind = "Err" /\ hmacro = "log_error") =>
              (hevals = 1 /\ hvalue = DefaultValue(hdefault, 1))
        /\ (hexpr.kind = "Err" /\ hmacro = "unwrap_or_log") =>
              /\ hevals = 2
              /\ hlog[1].default = DefaultValue(hdefault, 1)
              /\ hvalue = DefaultValue(hdefault, 2)

\* a default with a side effect has run twice, and the value logged is not
\* the value yielded
C19_Witness ==
    /\ hmacro = "unwrap_or_log"
    /\ hexpr.kind = "Err"
    /\ hdefault.kind = "counter"
    /\ hevals = 2
    /\ hlog[1].default = IntV(1)
    /\ hvalue = IntV(2)

----------------------------------------------------------------------------
(* properties of parse_env! *)

\* a step that leaves the environment as it is and still changes the
\* state is a call of parse_env!
ParseEnvStep == env' = env /\ ecall'.var \in EnvNames

\* C13: parse_env!(var, default) returns the current value of var whenever
\* var is set and default converted to a String whenever it is not set,
\* whatever set and remove operations came before the call.
C13_ParseEnv ==
    [][ParseEnvStep =>
         eresult' = IF env[ecall'.var] # Unset
                    THEN env[ecall'.var]
                    ELSE to_string(ecall'.default)]_vars

\* the part of C13 the code keeps: a variable set to valid Unicode is
\* returned, and an unset one gives the default as a String
C13_ParseEnvUnicode ==
    [][(ParseEnvStep /\ env[ecall'.var] # NotUnicodeValue) =>
         eresult' = IF env[ecall'.var] # Unset
                    THEN env[ecall'.var]
                    ELSE to_string(ecall'.default)]_vars

====
